---- MODULE Spec2Model ----
(***************************************************************************)
(* The persistence layer of helper_google_drive (src/database.py): the     *)
(* SQLite tables pending_folders, document_extractions, reports and        *)
(* processing_errors, and the public operations that read and write them.  *)
(*                                                                         *)
(* A table is the set of its rows, a row a record of its columns.  A       *)
(* nullable column holds NULL (the empty tuple) or Val(v) (the 1-tuple).   *)
(* CURRENT_TIMESTAMP is the variable now, advanced by Tick.                *)
(***************************************************************************)
EXTENDS Integers, Sequences, FiniteSets, TLC

VARIABLES
    pending_folders,        \* table pending_folders      (database.py 45-56)
    document_extractions,   \* table document_extractions (database.py 61-73)
    reports,                \* table reports              (database.py 79-94)
    processing_errors,      \* table processing_errors    (database.py 100-110)
    sqlite_sequence,        \* AUTOINCREMENT: last id handed out, per table (ids are
                            \* consecutive here; SQLite may skip values, unobserved)
    now,                    \* CURRENT_TIMESTAMP
    call,                   \* the last public operation: its name, arguments, outcome
    pc,                     \* concurrent callers: where each one is in its operation
    local,                  \* concurrent callers: operation, arguments, rows read so far
    writer,                 \* the connection holding SQLite's write lock (0: none)
    snap                    \* the tables when all concurrent callers were last idle

vars == <<pending_folders, document_extractions, reports, processing_errors,
          sqlite_sequence, now, call, pc, local, writer, snap>>

tables == <<pending_folders, document_extractions, reports, processing_errors>>

conc == <<pc, local, writer, snap>>

----------------------------------------------------------------------------
(* Bounds of the model *)

\* CURRENT_TIMESTAMP runs over 0..MaxTime
MaxTime == 1

\* processing_errors ids handed out: log_error is enabled below this
MaxErrorId == 2

\* pending_folders ids handed out where rows can be deleted (SpecAdmin)
MaxJobId == 3

----------------------------------------------------------------------------
(* Values *)

NULL == <<>>

Val(v) == <<v>>

\* _UNSET = object(): the "not supplied" sentinel of save_report_entry
UNSET == <<"_UNSET", "_UNSET">>

FolderIds == {"f1", "f2"}

\* (name, emoji) pairs a caller enqueues with
Labels == {<<"n1", "e1">>, <<"n2", "e2">>}

\* status is free text; the last one is outside the four-value enum
Statuses == {"queued", "processing", "done", "error", "archived"}

Reasons == {NULL, Val("r1")}

\* the pending_folder_id values callers pass: a job's id, before or after the job exists
JobIds == {1, 2}

\* message as log_error gets it: None breaks message TEXT NOT NULL
Messages == {NULL, Val("m1")}

----------------------------------------------------------------------------
(* The connection *)

\* get_connection opens sqlite3.connect(DB_PATH) and runs no PRAGMA:
\* SQLite's foreign_keys setting stays at its default, off, so the FOREIGN KEY
\* clauses of the schema are parsed and not enforced.
foreign_keys == FALSE

----------------------------------------------------------------------------
(* Job Queue Store *)

JobRow(id, folder_id, name, emoji, t) ==
    [id |-> id, folder_id |-> folder_id, name |-> name, emoji |-> emoji,
     status |-> "queued", error_reason |-> NULL,
     created_at |-> t, updated_at |-> t, processed_at |-> NULL]

\* Faulty variant: INSERT with no ON CONFLICT clause on a table with no UNIQUE(folder_id)
UpsertPendingFolder_NoConflict(tbl, id, folder_id, name, emoji, t) ==
    tbl \cup {JobRow(id, folder_id, name, emoji, t)}

\* Faulty variant: the conflict branch forgets to clear processed_at
UpsertPendingFolder_KeepsProcessedAt(tbl, id, folder_id, name, emoji, t) ==
    IF \E r \in tbl : r.folder_id = folder_id
    THEN {IF r.folder_id = folder_id
          THEN [r EXCEPT !.name = name, !.emoji = emoji, !.status = "queued",
                         !.error_reason = NULL, !.updated_at = t]
          ELSE r : r \in tbl}
    ELSE tbl \cup {JobRow(id, folder_id, name, emoji, t)}

\* Faulty variant: INSERT OR REPLACE, the row is deleted and inserted anew
UpsertPendingFolder_Replace(tbl, id, folder_id, name, emoji, t) ==
    {r \in tbl : r.folder_id # folder_id} \cup {JobRow(id, folder_id, name, emoji, t)}

\* INSERT INTO pending_folders ... ON CONFLICT(folder_id) DO UPDATE SET ...
UpsertPendingFolder(tbl, id, folder_id, name, emoji, t) ==
    IF \E r \in tbl : r.folder_id = folder_id
    THEN {IF r.folder_id = folder_id
          THEN [r EXCEPT !.name = name, !.emoji = emoji, !.status = "queued",
                         !.error_reason = NULL, !.updated_at = t,
                         !.processed_at = NULL]
          ELSE r : r \in tbl}
    ELSE tbl \cup {JobRow(id, folder_id, name, emoji, t)}

\* Faulty variant: WHEN ? = 'queued' THEN NULL, processing keeps processed_at
ProcessedAtCase_ProcessingKeeps(status, old, t) ==
    IF status = "done" THEN Val(t)
    ELSE IF status = "queued" THEN NULL
    ELSE old

\* Faulty variant: every status but done clears processed_at
ProcessedAtCase_ElseNull(status, old, t) ==
    IF status = "done" THEN Val(t) ELSE NULL

\* processed_at = CASE WHEN ? = 'done' THEN CURRENT_TIMESTAMP
\*                     WHEN ? IN ('queued', 'processing') THEN NULL
\*                     ELSE processed_at END
ProcessedAtCase(status, old, t) ==
    IF status = "done" THEN Val(t)
    ELSE IF status \in {"queued", "processing"} THEN NULL
    ELSE old

\* Faulty variant: error_reason = COALESCE(?, error_reason)
UpdatePendingStatus_KeepsReason(tbl, folder_id, status, error_reason, t) ==
    {IF r.folder_id = folder_id
     THEN [r EXCEPT !.status = status,
                    !.error_reason = IF error_reason # NULL THEN error_reason ELSE @,
                    !.updated_at = t,
                    !.processed_at = ProcessedAtCase(status, r.processed_at, t)]
     ELSE r : r \in tbl}

\* Faulty variant: UPDATE pending_folders SET ... with no WHERE clause
UpdatePendingStatus_NoWhere(tbl, folder_id, status, error_reason, t) ==
    {[r EXCEPT !.status = status, !.error_reason = error_reason, !.updated_at = t,
               !.processed_at = ProcessedAtCase(status, r.processed_at, t)] : r \in tbl}

\* UPDATE pending_folders SET ... WHERE folder_id = ?
UpdatePendingStatus(tbl, folder_id, status, error_reason, t) ==
    {IF r.folder_id = folder_id
     THEN [r EXCEPT !.status = status, !.error_reason = error_reason,
                    !.updated_at = t,
                    !.processed_at = ProcessedAtCase(status, r.processed_at, t)]
     ELSE r : r \in tbl}

enqueue_pending_folder(folder_id, name, emoji) ==
    LET conflict == \E r \in pending_folders : r.folder_id = folder_id
        id == sqlite_sequence.pending_folders + 1
    IN  /\ conflict \/ id <= MaxJobId
        /\ pending_folders' =
              UpsertPendingFolder(pending_folders, id, folder_id, name, emoji, now)
        /\ sqlite_sequence' =
              IF conflict THEN sqlite_sequence
              ELSE [sqlite_sequence EXCEPT !.pending_folders = id]
        /\ call' = [op |-> "enqueue",
                    args |-> [folder_id |-> folder_id, name |-> name, emoji |-> emoji],
                    outcome |-> IF conflict THEN "updated" ELSE "inserted"]
        /\ UNCHANGED <<document_extractions, reports, processing_errors, now, conc>>

update_pending_status(folder_id, status, error_reason) ==
    /\ pending_folders' =
          UpdatePendingStatus(pending_folders, folder_id, status, error_reason, now)
    /\ call' = [op |-> "update_status",
                args |-> [folder_id |-> folder_id, status |-> status,
                          error_reason |-> error_reason],
                outcome |-> IF \E r \in pending_folders : r.folder_id = folder_id
                            THEN "updated" ELSE "no_row"]
    /\ UNCHANGED <<document_extractions, reports, processing_errors,
                   sqlite_sequence, now, conc>>

\* A second of wall-clock time passes between two operations
Tick ==
    /\ now < MaxTime
    /\ now' = now + 1
    /\ UNCHANGED <<tables, sqlite_sequence, call, conc>>

----------------------------------------------------------------------------
(* The session.  get_connection commits when the body of the with block       *)
(* returns and closes the connection on every path; a connection closed       *)
(* before a commit leaves nothing of what its statements wrote.               *)

\* the exceptions a write raises in the model
Raised == {"IntegrityError", "ProgrammingError"}

\* Faulty variant: conn.commit() moved into the finally block, after a statement
\* that raised with its row already written
Leave_CommitInFinally(before, after, outcome) == after

\* what a with get_connection() block leaves of a table (or of sqlite_sequence):
\* "after" when the body returned, "before" when it raised
Leave(before, after, outcome) ==
    IF outcome \in Raised THEN before ELSE after

----------------------------------------------------------------------------
(* Payload encoding.  A Python value is a tagged tuple; a JSON text is written *)
(* as the syntax tree of the text.                                            *)

PyStr(s) == <<"str", s>>

PyInt(n) == <<"int", n>>

\* a dict of one entry; the key is any hashable Python value
PyDict(k, v) == <<"dict", k, v>>

\* a list or a tuple of one item
PyList(v) == <<"list", v>>

\* json.dumps turns a dict key into a JSON string: str as is, int by str()
JsonKey(k) == <<"string", k[2]>>

RECURSIVE json_dumps(_)
\* json.dumps(value, ensure_ascii=False): text is written as is, not escaped
json_dumps(v) ==
    CASE v[1] = "str"  -> <<"string", v[2]>>
      [] v[1] = "int"  -> <<"number", v[2]>>
      [] v[1] = "dict" -> <<"object", JsonKey(v[2]), json_dumps(v[3])>>
      [] v[1] = "list" -> <<"array", json_dumps(v[2])>>

----------------------------------------------------------------------------
(* Extraction Store *)

DocRow(id, pending_folder_id, folder_id, doc_type, file_id, file_name, payload, t) ==
    [id |-> id, pending_folder_id |-> pending_folder_id, folder_id |-> folder_id,
     doc_type |-> doc_type, file_id |-> file_id, file_name |-> file_name,
     data_json |-> payload, created_at |-> t, updated_at |-> t]

\* Faulty variant: INSERT with no ON CONFLICT clause on a table with no UNIQUE key
UpsertDocumentExtraction_NoConflict(tbl, excluded) ==
    tbl \cup {excluded}

\* Faulty variant: ON CONFLICT DO NOTHING, the first payload stays
UpsertDocumentExtraction_DoNothing(tbl, excluded) ==
    IF \E r \in tbl : r.folder_id = excluded.folder_id /\ r.doc_type = excluded.doc_type
    THEN tbl
    ELSE tbl \cup {excluded}

\* Faulty variant: pending_folder_id = COALESCE(excluded.pending_folder_id,
\* pending_folder_id), a re-save without a back-reference keeps the stored one
UpsertDocumentExtraction_KeepsBackReference(tbl, excluded) ==
    IF \E r \in tbl : r.folder_id = excluded.folder_id /\ r.doc_type = excluded.doc_type
    THEN {IF r.folder_id = excluded.folder_id /\ r.doc_type = excluded.doc_type
          THEN [r EXCEPT !.pending_folder_id =
                            IF excluded.pending_folder_id # NULL
                            THEN excluded.pending_folder_id ELSE @,
                         !.file_id = excluded.file_id,
                         !.file_name = excluded.file_name,
                         !.data_json = excluded.data_json,
                         !.updated_at = excluded.updated_at]
          ELSE r : r \in tbl}
    ELSE tbl \cup {excluded}

\* INSERT INTO document_extractions ... ON CONFLICT(folder_id, doc_type) DO UPDATE SET ...
\* excluded is the row the INSERT would have added
UpsertDocumentExtraction(tbl, excluded) ==
    IF \E r \in tbl : r.folder_id = excluded.folder_id /\ r.doc_type = excluded.doc_type
    THEN {IF r.folder_id = excluded.folder_id /\ r.doc_type = excluded.doc_type
          THEN [r EXCEPT !.pending_folder_id = excluded.pending_folder_id,
                         !.file_id = excluded.file_id,
                         !.file_name = excluded.file_name,
                         !.data_json = excluded.data_json,
                         !.updated_at = excluded.updated_at]
          ELSE r : r \in tbl}
    ELSE tbl \cup {excluded}

save_document_extraction(pending_folder_id, folder_id, doc_type, file_id, file_name, data) ==
    LET conflict == \E r \in document_extractions :
                        r.folder_id = folder_id /\ r.doc_type = doc_type
        id == sqlite_sequence.document_extractions + 1
        payload == json_dumps(data)
    IN  /\ document_extractions' =
              UpsertDocumentExtraction(document_extractions,
                  DocRow(id, pending_folder_id, folder_id, doc_type,
                         file_id, file_name, payload, now))
        /\ sqlite_sequence' =
              IF conflict THEN sqlite_sequence
              ELSE [sqlite_sequence EXCEPT !.document_extractions = id]
        /\ call' = [op |-> "save_extraction",
                    args |-> [pending_folder_id |-> pending_folder_id,
                              folder_id |-> folder_id, doc_type |-> doc_type,
                              file_id |-> file_id, file_name |-> file_name,
                              data |-> data],
                    outcome |-> IF conflict THEN "updated" ELSE "inserted"]
        /\ UNCHANGED <<pending_folders, reports, processing_errors, now, conc>>

----------------------------------------------------------------------------
(* Report Store *)

ScalarFields == {"plus_value", "evaluation_value", "final_synthesis",
                 "final_doc_id", "final_doc_link"}

DetailFields == {"plus_value_details", "evaluation_details"}

ReportFields == ScalarFields \cup DetailFields

\* the reports row with pending_folder_id = ?, as fetchone() returns it: a row or None
ExistingReport(tbl, pending_folder_id) ==
    IF \E r \in tbl : r.pending_folder_id = pending_folder_id
    THEN Val(CHOOSE r \in tbl : r.pending_folder_id = pending_folder_id)
    ELSE NULL

\* Faulty variant: "omitted" collapsed into "explicit null"
resolve_value_UnsetIsNull(new_value, key, existing) ==
    IF new_value = UNSET THEN NULL ELSE new_value

\* Faulty variant: "explicit null" collapsed into "omitted"
resolve_value_NullIsUnset(new_value, key, existing) ==
    IF new_value = UNSET \/ new_value = NULL
    THEN IF existing # NULL THEN existing[1][key] ELSE NULL
    ELSE new_value

\* def resolve_value(new_value, key)
resolve_value(new_value, key, existing) ==
    IF new_value = UNSET
    THEN IF existing # NULL THEN existing[1][key] ELSE NULL
    ELSE new_value

\* Faulty variant: "omitted" collapsed into "explicit null"
resolve_details_UnsetIsNull(new_value, key, existing) ==
    IF new_value = UNSET \/ new_value = NULL THEN NULL
    ELSE Val(json_dumps(new_value[1]))

\* def resolve_details(new_value, key)
resolve_details(new_value, key, existing) ==
    IF new_value = UNSET
    THEN IF existing # NULL THEN existing[1][key] ELSE NULL
    ELSE IF new_value = NULL THEN NULL
    ELSE Val(json_dumps(new_value[1]))

\* plus_val, plus_details, ..., doc_link: the seven values bound to the INSERT
ResolvedReport(patch, existing) ==
    [plus_value         |-> resolve_value(patch.plus_value, "plus_value", existing),
     plus_value_details |-> resolve_details(patch.plus_value_details,
                                            "plus_value_details", existing),
     evaluation_value   |-> resolve_value(patch.evaluation_value,
                                          "evaluation_value", existing),
     evaluation_details |-> resolve_details(patch.evaluation_details,
                                            "evaluation_details", existing),
     final_synthesis    |-> resolve_value(patch.final_synthesis,
                                          "final_synthesis", existing),
     final_doc_id       |-> resolve_value(patch.final_doc_id, "final_doc_id", existing),
     final_doc_link     |-> resolve_value(patch.final_doc_link,
                                          "final_doc_link", existing)]

ReportRow(id, pending_folder_id, folder_id, v, t) ==
    [id |-> id, pending_folder_id |-> pending_folder_id, folder_id |-> folder_id,
     plus_value |-> v.plus_value, plus_value_details |-> v.plus_value_details,
     evaluation_value |-> v.evaluation_value,
     evaluation_details |-> v.evaluation_details,
     final_synthesis |-> v.final_synthesis, final_doc_id |-> v.final_doc_id,
     final_doc_link |-> v.final_doc_link, created_at |-> t, updated_at |-> t]

\* Faulty variant: INSERT with no ON CONFLICT clause on a table with no UNIQUE key
UpsertReport_NoConflict(tbl, id, pending_folder_id, folder_id, v, t) ==
    tbl \cup {ReportRow(id, pending_folder_id, folder_id, v, t)}

\* INSERT INTO reports ... ON CONFLICT(pending_folder_id) DO UPDATE SET ...
UpsertReport(tbl, id, pending_folder_id, folder_id, v, t) ==
    IF \E r \in tbl : r.pending_folder_id = pending_folder_id
    THEN {IF r.pending_folder_id = pending_folder_id
          THEN [r EXCEPT !.folder_id = folder_id,
                         !.plus_value = v.plus_value,
                         !.plus_value_details = v.plus_value_details,
                         !.evaluation_value = v.evaluation_value,
                         !.evaluation_details = v.evaluation_details,
                         !.final_synthesis = v.final_synthesis,
                         !.final_doc_id = v.final_doc_id,
                         !.final_doc_link = v.final_doc_link,
                         !.updated_at = t]
          ELSE r : r \in tbl}
    ELSE tbl \cup {ReportRow(id, pending_folder_id, folder_id, v, t)}

\* sqlite3 binds a str, an int, a float or None to a "?"; a dict, a list or a
\* tuple raises "type is not supported"
Supported(v) == v[1] \notin {"dict", "list"}

\* whether a write naming pending_folder_id breaks FOREIGN KEY(pending_folder_id)
ForeignKeyViolation(pending_folder_id) ==
    /\ foreign_keys
    /\ \A j \in pending_folders : j.id # pending_folder_id

\* how the INSERT of save_report_entry ends, given the seven values bound to it
SaveReportOutcome(pending_folder_id, v, existing) ==
    IF \E f \in ScalarFields : v[f] # NULL /\ ~Supported(v[f][1])
    THEN "ProgrammingError"  \* binding the parameters raises
    ELSE IF ForeignKeyViolation(pending_folder_id) THEN "IntegrityError"
    ELSE IF existing # NULL THEN "updated" ELSE "inserted"

save_report_entry(pending_folder_id, folder_id, patch) ==
    \E existing \in {ExistingReport(reports, pending_folder_id)} :
    \E v \in {ResolvedReport(patch, existing)} :
    \E outcome \in {SaveReportOutcome(pending_folder_id, v, existing)} :
       LET id == sqlite_sequence.reports + 1
       IN  /\ reports' =
                 Leave(reports,
                       UpsertReport(reports, id, pending_folder_id, folder_id, v, now),
                       outcome)
           /\ sqlite_sequence' =
                 Leave(sqlite_sequence,
                       IF existing # NULL THEN sqlite_sequence
                       ELSE [sqlite_sequence EXCEPT !.reports = id],
                       outcome)
           /\ call' = [op |-> "save_report",
                       args |-> [pending_folder_id |-> pending_folder_id,
                                 folder_id |-> folder_id, patch |-> patch],
                       outcome |-> outcome]
           /\ UNCHANGED <<pending_folders, document_extractions, processing_errors,
                          now, conc>>

----------------------------------------------------------------------------
(* Error Log *)

ErrorRow(id, pending_folder_id, stage, doc_type, error_code, message, raw_payload, t) ==
    [id |-> id, pending_folder_id |-> pending_folder_id, stage |-> stage,
     doc_type |-> doc_type, error_code |-> error_code, message |-> message,
     raw_payload |-> raw_payload, created_at |-> t]

\* Faulty variant: INSERT OR REPLACE on a table keyed by pending_folder_id
InsertProcessingError_Replace(tbl, row) ==
    {r \in tbl : r.pending_folder_id # row.pending_folder_id} \cup {row}

\* INSERT INTO processing_errors (...) VALUES (?, ?, ?, ?, ?, ?)
InsertProcessingError(tbl, row) == tbl \cup {row}

\* Faulty variant: DELETE FROM processing_errors with no WHERE clause
DeleteProcessingErrors_NoWhere(tbl, pending_folder_id) == {}

\* DELETE FROM processing_errors WHERE pending_folder_id = ?
DeleteProcessingErrors(tbl, pending_folder_id) ==
    {r \in tbl : r.pending_folder_id # pending_folder_id}

log_processing_error(pending_folder_id, stage, doc_type, error_code, message, raw_payload) ==
    LET id == sqlite_sequence.processing_errors + 1
        args == [pending_folder_id |-> pending_folder_id, stage |-> stage,
                 doc_type |-> doc_type, error_code |-> error_code,
                 message |-> message, raw_payload |-> raw_payload]
        outcome ==
            \* message TEXT NOT NULL: the INSERT raises
            IF message = NULL \/ ForeignKeyViolation(pending_folder_id)
            THEN "IntegrityError" ELSE "inserted"
    IN  /\ id <= MaxErrorId
        /\ processing_errors' =
              Leave(processing_errors,
                    InsertProcessingError(processing_errors,
                        ErrorRow(id, pending_folder_id, stage, doc_type, error_code,
                                 message, raw_payload, now)),
                    outcome)
        /\ sqlite_sequence' =
              Leave(sqlite_sequence,
                    [sqlite_sequence EXCEPT !.processing_errors = id], outcome)
        /\ call' = [op |-> "log_error", args |-> args, outcome |-> outcome]
        /\ UNCHANGED <<pending_folders, document_extractions, reports, now, conc>>

clear_processing_errors(pending_folder_id) ==
    /\ processing_errors' = DeleteProcessingErrors(processing_errors, pending_folder_id)
    /\ call' = [op |-> "clear_errors",
                args |-> [pending_folder_id |-> pending_folder_id],
                outcome |-> "ok"]
    /\ UNCHANGED <<pending_folders, document_extractions, reports,
                   sqlite_sequence, now, conc>>

----------------------------------------------------------------------------
(* A row deleted by hand.  No public operation deletes a job; a caller can,   *)
(* with get_connection() as conn: conn.execute("DELETE FROM pending_folders   *)
(* WHERE id = ?").  The schema declares ON DELETE CASCADE for reports and     *)
(* processing_errors and ON DELETE SET NULL for document_extractions; SQLite  *)
(* acts on them only on a connection with foreign_keys on.                    *)

DeleteJobRow(id) ==
    /\ \E j \in pending_folders : j.id = id
    /\ pending_folders' = {j \in pending_folders : j.id # id}
    /\ IF foreign_keys
       THEN /\ reports' = {r \in reports : r.pending_folder_id # id}
            /\ processing_errors' =
                  {e \in processing_errors : e.pending_folder_id # id}
            /\ document_extractions' =
                  {IF d.pending_folder_id = Val(id)
                   THEN [d EXCEPT !.pending_folder_id = NULL]
                   ELSE d : d \in document_extractions}
       ELSE UNCHANGED <<reports, processing_errors, document_extractions>>
    /\ call' = [op |-> "delete_job", args |-> [id |-> id], outcome |-> "ok"]
    /\ UNCHANGED <<sqlite_sequence, now, conc>>

----------------------------------------------------------------------------
(* Concurrent callers.  Each caller opens its own connection; a step is one  *)
(* SQL statement or the commit.  sqlite3 opens a transaction before an       *)
(* INSERT, not before a SELECT: a SELECT runs on its own and holds no lock   *)
(* once it has returned.  The INSERT takes the write lock, which the commit  *)
(* gives back; until the commit the other connections read the old rows.     *)

Procs == {1, 2}

NoCall == [op |-> "none", args |-> <<>>, overlap |-> FALSE,
           existing |-> NULL, staged |-> <<>>, result |-> <<>>]

\* whether another caller is inside an operation
OthersRunning(p) == \E q \in Procs \ {p} : pc[q] \notin {"idle", "done", "failed"}

\* the patches two concurrent callers send: each sets a field of its own
ConcPatches == {[f \in ReportFields |->
                    IF f = "plus_value" THEN Val(<<"num", "100">>) ELSE UNSET],
                [f \in ReportFields |->
                    IF f = "evaluation_value" THEN Val(<<"num", "50">>) ELSE UNSET]}

\* enqueue_pending_folder is called: init_db finds the tables, the INSERT is next
StartEnqueue(p, folder_id, name, emoji) ==
    /\ pc[p] = "idle"
    /\ pc' = [pc EXCEPT ![p] = "execute"]
    /\ local' = [q \in Procs |->
                    IF q = p
                    THEN [NoCall EXCEPT !.op = "enqueue",
                                        !.args = [folder_id |-> folder_id,
                                                  name |-> name, emoji |-> emoji],
                                        !.overlap = OthersRunning(p)]
                    ELSE [local[q] EXCEPT !.overlap =
                             @ \/ pc[q] \notin {"idle", "done", "failed"}]]
    /\ UNCHANGED <<tables, sqlite_sequence, now, call, writer, snap>>

\* save_report_entry is called: init_db finds the tables, the SELECT is next
StartSaveReport(p, pending_folder_id, folder_id, patch) ==
    /\ pc[p] = "idle"
    /\ pc' = [pc EXCEPT ![p] = "select"]
    /\ local' = [q \in Procs |->
                    IF q = p
                    THEN [NoCall EXCEPT !.op = "save_report",
                                        !.args = [pending_folder_id |-> pending_folder_id,
                                                  folder_id |-> folder_id,
                                                  patch |-> patch],
                                        !.overlap = OthersRunning(p)]
                    ELSE [local[q] EXCEPT !.overlap =
                             @ \/ pc[q] \notin {"idle", "done", "failed"}]]
    /\ UNCHANGED <<tables, sqlite_sequence, now, call, writer, snap>>

\* save_report_entry: existing = conn.execute("SELECT ... FROM reports ...").fetchone()
SelectExisting(p) ==
    /\ pc[p] = "select"
    /\ pc' = [pc EXCEPT ![p] = "execute"]
    /\ local' = [local EXCEPT ![p].existing =
                    ExistingReport(reports, local[p].args.pending_folder_id)]
    /\ UNCHANGED <<tables, sqlite_sequence, now, call, writer, snap>>

\* the rows the caller's INSERT leaves, to be committed
Staged(p) ==
    IF local[p].op = "enqueue"
    THEN [pending_folders |->
              UpsertPendingFolder(pending_folders, sqlite_sequence.pending_folders + 1,
                                  local[p].args.folder_id, local[p].args.name,
                                  local[p].args.emoji, now),
          reports |-> reports,
          sqlite_sequence |->
              IF \E r \in pending_folders : r.folder_id = local[p].args.folder_id
              THEN sqlite_sequence
              ELSE [sqlite_sequence EXCEPT
                       !.pending_folders = sqlite_sequence.pending_folders + 1]]
    ELSE [pending_folders |-> pending_folders,
          reports |->
              UpsertReport(reports, sqlite_sequence.reports + 1,
                           local[p].args.pending_folder_id, local[p].args.folder_id,
                           ResolvedReport(local[p].args.patch, local[p].existing), now),
          sqlite_sequence |->
              IF \E r \in reports : r.pending_folder_id = local[p].args.pending_folder_id
              THEN sqlite_sequence
              ELSE [sqlite_sequence EXCEPT !.reports = sqlite_sequence.reports + 1]]

\* conn.execute("INSERT ... ON CONFLICT ..."): takes the write lock
ExecuteInsert(p) ==
    /\ pc[p] = "execute"
    /\ writer = 0
    /\ writer' = p
    /\ pc' = [pc EXCEPT ![p] = "commit"]
    /\ local' = [local EXCEPT ![p].staged = Staged(p)]
    /\ UNCHANGED <<tables, sqlite_sequence, now, call, snap>>

\* the write lock is held by another connection for the whole busy timeout:
\* sqlite3.OperationalError, get_connection closes the connection
DatabaseIsLocked(p) ==
    /\ pc[p] = "execute"
    /\ writer \notin {0, p}
    /\ pc' = [pc EXCEPT ![p] = "failed"]
    /\ UNCHANGED <<tables, sqlite_sequence, now, call, local, writer, snap>>

\* get_connection: conn.commit(), conn.close()
Commit(p) ==
    /\ pc[p] = "commit"
    /\ writer = p
    /\ pending_folders' = local[p].staged.pending_folders
    /\ reports' = local[p].staged.reports
    /\ sqlite_sequence' = local[p].staged.sqlite_sequence
    /\ writer' = 0
    /\ pc' = [pc EXCEPT ![p] = "done"]
    /\ local' = [local EXCEPT ![p].staged = <<>>]
    /\ UNCHANGED <<document_extractions, processing_errors, now, call, snap>>

\* every caller has returned; the next calls start from these rows
Return ==
    /\ \A p \in Procs : pc[p] \in {"idle", "done", "failed"}
    /\ \E p \in Procs : pc[p] # "idle"
    /\ pc' = [p \in Procs |-> "idle"]
    /\ local' = [p \in Procs |-> NoCall]
    /\ snap' = tables
    /\ UNCHANGED <<tables, sqlite_sequence, now, call, writer>>

----------------------------------------------------------------------------
(* Reading.  A TEXT column holds either a JSON text, written as its syntax    *)
(* tree, or the text a caller bound as it was, written PyStr(s).              *)

\* raw texts that are themselves a JSON document: a text of digits is a number
NumberTexts == {"42"}

\* what json.loads raises on a text that is no JSON document
JSONDecodeError == <<"JSONDecodeError">>

RECURSIVE json_loads(_)
\* json.loads(text): an object becomes a dict with str keys, an array a list
json_loads(text) ==
    CASE text[1] = "string" -> PyStr(text[2])
      [] text[1] = "number" -> PyInt(text[2])
      [] text[1] = "object" -> PyDict(PyStr(text[2][2]), json_loads(text[3]))
      [] text[1] = "array"  -> PyList(json_loads(text[2]))
      [] text[1] = "str"    -> IF text[2] \in NumberTexts THEN PyInt(text[2])
                               ELSE JSONDecodeError

\* "if payload": None and the empty text are falsy
Falsy(payload) == payload = NULL \/ payload = Val(PyStr(""))

\* Faulty variant: the stored text handed back undecoded
DecodeOrNone_Raw(payload) == payload

\* try: json.loads(payload) if payload else None / except JSONDecodeError: None
DecodeOrNone(payload) ==
    IF Falsy(payload) THEN NULL
    ELSE IF json_loads(payload[1]) = JSONDecodeError THEN NULL
    ELSE Val(json_loads(payload[1]))

\* try: json.loads(synth_payload) if synth_payload else None
\* except JSONDecodeError: synth_payload
DecodeOrText(payload) ==
    IF Falsy(payload) THEN NULL
    ELSE IF json_loads(payload[1]) = JSONDecodeError THEN payload
    ELSE Val(json_loads(payload[1]))

\* dict(doc) with the key "data" added; data_json is NOT NULL
doc_dict(doc) ==
    [k \in DOMAIN doc \cup {"data"} |->
        IF k = "data" THEN DecodeOrNone(Val(doc.data_json)) ELSE doc[k]]

\* dict(report) with the three structured fields decoded
report_dict(report) ==
    [report EXCEPT !.plus_value_details = DecodeOrNone(@),
                   !.evaluation_details = DecodeOrNone(@),
                   !.final_synthesis = DecodeOrText(@)]

\* Faulty variant: SELECT * FROM reports with no WHERE clause
GetReport_AnyRow(tbl, pending_folder_id) ==
    IF tbl # {} THEN Val(CHOOSE r \in tbl : TRUE) ELSE NULL

\* SELECT * FROM reports WHERE pending_folder_id = ? / fetchone(): the row as stored
GetReport(tbl, pending_folder_id) ==
    IF \E r \in tbl : r.pending_folder_id = pending_folder_id
    THEN Val(CHOOSE r \in tbl : r.pending_folder_id = pending_folder_id)
    ELSE NULL

\* SELECT * FROM document_extractions WHERE folder_id = ? AND doc_type = ? / fetchone()
GetDocumentExtraction(tbl, folder_id, doc_type) ==
    IF \E r \in tbl : r.folder_id = folder_id /\ r.doc_type = doc_type
    THEN Val(CHOOSE r \in tbl : r.folder_id = folder_id /\ r.doc_type = doc_type)
    ELSE NULL

\* Faulty variant: ORDER BY created_at ASC, id DESC
ErrorBefore_IdDesc(a, b) ==
    \/ a.created_at < b.created_at
    \/ a.created_at = b.created_at /\ a.id > b.id

\* whether row a comes before row b under ORDER BY created_at ASC, id ASC
ErrorBefore(a, b) ==
    \/ a.created_at < b.created_at
    \/ a.created_at = b.created_at /\ a.id < b.id

RECURSIVE SortedErrors(_)
\* the rows of a set in ORDER BY created_at ASC, id ASC
SortedErrors(rows) ==
    IF rows = {} THEN <<>>
    ELSE LET last == CHOOSE r \in rows : \A o \in rows \ {r} : ErrorBefore(o, r)
         IN  Append(SortedErrors(rows \ {last}), last)

\* SELECT * FROM processing_errors WHERE pending_folder_id = ? ORDER BY created_at, id
ListProcessingErrors(tbl, pending_folder_id) ==
    SortedErrors({r \in tbl : r.pending_folder_id = pending_folder_id})

\* the dict get_job_with_details returns, or None; documents are kept as a set
JobWithDetails(folder_id) ==
    IF \A j \in pending_folders : j.folder_id # folder_id THEN NULL
    ELSE LET job == CHOOSE j \in pending_folders : j.folder_id = folder_id
             report == GetReport(reports, job.id)
         IN  Val([job |-> job,
                  documents |-> {doc_dict(d) : d \in {x \in document_extractions :
                                                         x.folder_id = folder_id}},
                  report |-> IF report = NULL THEN NULL ELSE Val(report_dict(report[1])),
                  errors |-> ListProcessingErrors(processing_errors, job.id)])

\* doc["pending_folder_id"] or folder_to_job_id.get(doc["folder_id"])
\* "or" takes its right side when the left is falsy: None, and also 0
TargetId(doc) ==
    IF doc.pending_folder_id \notin {NULL, Val(0)} THEN doc.pending_folder_id
    ELSE IF \E j \in pending_folders : j.folder_id = doc.folder_id
    THEN Val((CHOOSE j \in pending_folders : j.folder_id = doc.folder_id).id)
    ELSE NULL

\* the entries list_jobs_with_extractions returns, kept as a set
JobsWithExtractions ==
    {[job |-> j,
      documents |-> {doc_dict(d) : d \in {x \in document_extractions :
                                             TargetId(x) = Val(j.id)}},
      report |-> IF GetReport(reports, j.id) = NULL THEN NULL
                 ELSE Val(report_dict(GetReport(reports, j.id)[1]))]
     : j \in pending_folders}

\* row[0] or "unknown"
StatusKey(status) == IF status = "" THEN "unknown" ELSE status

\* SELECT status, COUNT(*) FROM pending_folders GROUP BY status, as a dict
ByStatus(tbl) ==
    [k \in {StatusKey(r.status) : r \in tbl} |->
        LET s == CHOOSE x \in {r.status : r \in tbl} : StatusKey(x) = k
        IN  Cardinality({r \in tbl : r.status = s})]

\* by_status.get(key, 0)
DictGet(d, key) == IF key \in DOMAIN d THEN d[key] ELSE 0

\* SELECT MAX(updated_at) FROM pending_folders
MaxUpdatedAt(tbl) ==
    IF tbl = {} THEN NULL
    ELSE Val(CHOOSE t \in {r.updated_at : r \in tbl} : \A r \in tbl : r.updated_at <= t)

\* Faulty variant: the buckets count every job that is not in another bucket
JobStats_Folded(tbl) ==
    [total |-> Cardinality(tbl),
     queued |-> DictGet(ByStatus(tbl), "queued"),
     processing |-> DictGet(ByStatus(tbl), "processing"),
     done |-> DictGet(ByStatus(tbl), "done"),
     error |-> Cardinality({r \in tbl : r.status \notin {"queued", "processing", "done"}}),
     last_update |-> MaxUpdatedAt(tbl)]

\* the dict get_job_stats returns
JobStats(tbl) ==
    [total |-> Cardinality(tbl),
     queued |-> DictGet(ByStatus(tbl), "queued"),
     processing |-> DictGet(ByStatus(tbl), "processing"),
     done |-> DictGet(ByStatus(tbl), "done"),
     error |-> DictGet(ByStatus(tbl), "error"),
     last_update |-> MaxUpdatedAt(tbl)]

\* a read: the tables are left as they are, the caller gets result
Returns(op, args, result) ==
    /\ call' = [op |-> op, args |-> args, outcome |-> "ok", result |-> result]
    /\ UNCHANGED <<tables, sqlite_sequence, now, conc>>

get_report(pending_folder_id) ==
    Returns("get_report", [pending_folder_id |-> pending_folder_id],
            GetReport(reports, pending_folder_id))

get_document_extraction(folder_id, doc_type) ==
    Returns("get_extraction", [folder_id |-> folder_id, doc_type |-> doc_type],
            GetDocumentExtraction(document_extractions, folder_id, doc_type))

get_job_with_details(folder_id) ==
    Returns("job_with_details", [folder_id |-> folder_id], JobWithDetails(folder_id))

list_jobs_with_extractions ==
    Returns("jobs_with_extractions", <<>>, JobsWithExtractions)

list_processing_errors(pending_folder_id) ==
    Returns("list_errors", [pending_folder_id |-> pending_folder_id],
            ListProcessingErrors(processing_errors, pending_folder_id))

get_job_stats ==
    Returns("job_stats", <<>>, JobStats(pending_folders))

\* the rows of SELECT * FROM pending_folders [WHERE status = ?]: "if status:" adds
\* the WHERE clause for a status that is neither None nor the empty text
SelectPendingFolders(tbl, status) ==
    IF status = NULL \/ status = Val("") THEN tbl
    ELSE {r \in tbl : r.status = status[1]}

\* the orders ORDER BY created_at ASC can return a set of rows in: rows that share
\* a created_at come in an order the statement does not fix
OrderedByCreatedAt(rows) ==
    {l \in [1..Cardinality(rows) -> rows] :
        /\ \A i \in DOMAIN l : \A k \in DOMAIN l : i # k => l[i] # l[k]
        /\ \A i \in DOMAIN l : \A k \in DOMAIN l :
              i < k => l[i].created_at <= l[k].created_at}

get_pending_folders(status) ==
    \E rows \in OrderedByCreatedAt(SelectPendingFolders(pending_folders, status)) :
       Returns("list_jobs", [status |-> status], rows)

----------------------------------------------------------------------------
(* get_job_stats beside a writer.  The sqlite3 module opens a transaction      *)
(* before an INSERT, UPDATE or DELETE only: each of the three SELECTs of       *)
(* get_job_stats runs on its own and reads the rows committed at that moment.  *)

\* get_job_stats is called: init_db finds the tables, the COUNT(*) is next
StartJobStats(p) ==
    /\ pc[p] = "idle"
    /\ pc' = [pc EXCEPT ![p] = "select_total"]
    /\ local' = [q \in Procs |->
                    IF q = p
                    THEN [NoCall EXCEPT !.op = "job_stats",
                                        !.overlap = OthersRunning(p)]
                    ELSE [local[q] EXCEPT !.overlap =
                             @ \/ pc[q] \notin {"idle", "done", "failed"}]]
    /\ UNCHANGED <<tables, sqlite_sequence, now, call, writer, snap>>

\* total = cursor.execute("SELECT COUNT(*) FROM pending_folders").fetchone()[0]
SelectTotal(p) ==
    /\ pc[p] = "select_total"
    /\ pc' = [pc EXCEPT ![p] = "select_by_status"]
    /\ local' = [local EXCEPT ![p].result = [total |-> Cardinality(pending_folders)]]
    /\ UNCHANGED <<tables, sqlite_sequence, now, call, writer, snap>>

\* by_status = {... "SELECT status, COUNT(*) FROM pending_folders GROUP BY status"}
SelectByStatus(p) ==
    /\ pc[p] = "select_by_status"
    /\ pc' = [pc EXCEPT ![p] = "select_last_update"]
    /\ local' = [local EXCEPT ![p].result =
                    [total |-> @.total, by_status |-> ByStatus(pending_folders)]]
    /\ UNCHANGED <<tables, sqlite_sequence, now, call, writer, snap>>

\* last_update = "SELECT MAX(updated_at) FROM pending_folders"; the dict is returned
SelectLastUpdate(p) ==
    /\ pc[p] = "select_last_update"
    /\ pc' = [pc EXCEPT ![p] = "done"]
    /\ local' = [local EXCEPT ![p].result =
                    [total |-> @.total,
                     queued |-> DictGet(@.by_status, "queued"),
                     processing |-> DictGet(@.by_status, "processing"),
                     done |-> DictGet(@.by_status, "done"),
                     error |-> DictGet(@.by_status, "error"),
                     last_update |-> MaxUpdatedAt(pending_folders)]]
    /\ UNCHANGED <<tables, sqlite_sequence, now, call, writer, snap>>

----------------------------------------------------------------------------
(* What callers pass *)

\* a payload with non-ASCII text, one with an int key, one that is a list
Payloads == {PyDict(PyStr("nom"), PyStr("é")), PyDict(PyInt("1"), PyStr("a")),
             PyList(PyStr("x"))}

\* the value a caller supplies for a report field
SampleValue(f) ==
    CASE f = "plus_value"         -> <<"num", "100">>
      [] f = "plus_value_details" -> PyDict(PyStr("base"), PyStr("é"))
      [] f = "evaluation_value"   -> <<"num", "50">>
      [] f = "evaluation_details" -> PyList(PyStr("x"))
      [] f = "final_synthesis"    -> PyStr("synthèse")
      [] f = "final_doc_id"       -> PyStr("doc1")
      [] f = "final_doc_link"     -> PyStr("http://doc1")

\* the call that omits the fields of S and supplies the others: as values, or as None
PatchOf(S, mode) ==
    [f \in ReportFields |-> IF f \in S THEN UNSET
                            ELSE IF mode = "null" THEN NULL
                            ELSE Val(SampleValue(f))]

\* every subset of omitted fields, the supplied ones all values or all None
Patches == {PatchOf(S, m) : S \in SUBSET ReportFields, m \in {"value", "null"}}

\* the calls of the spec's merge-patch example
FewPatches == {PatchOf(ReportFields \ {"plus_value"}, "value"),
               PatchOf(ReportFields \ {"evaluation_value"}, "value"),
               PatchOf(ReportFields \ {"plus_value"}, "null")}

FewPayloads == {PyDict(PyStr("nom"), PyStr("é")), PyList(PyStr("x"))}

----------------------------------------------------------------------------
(* Initial state: init_db has created the four tables, all empty *)

Init ==
    /\ pending_folders = {}
    /\ document_extractions = {}
    /\ reports = {}
    /\ processing_errors = {}
    /\ sqlite_sequence = [pending_folders |-> 0, document_extractions |-> 0,
                          reports |-> 0, processing_errors |-> 0]
    /\ now = 0
    /\ call = [op |-> "init_db", args |-> <<>>, outcome |-> "ok"]
    /\ pc = [p \in Procs |-> "idle"]
    /\ local = [p \in Procs |-> NoCall]
    /\ writer = 0
    /\ snap = <<{}, {}, {}, {}>>

\* Every public write operation, in any order, on a few inputs each
Next ==
    \/ \E f \in FolderIds : enqueue_pending_folder(f, "n1", "e1")
    \/ \E s \in {"done", "error"} :
          update_pending_status("f1", s, IF s = "error" THEN Val("r1") ELSE NULL)
    \/ \E j \in {NULL, Val(1)}, data \in FewPayloads :
          save_document_extraction(j, "f1", "d1", NULL, NULL, data)
    \/ \E p \in FewPatches : save_report_entry(1, "f1", p)
    \/ \E j \in JobIds, m \in Messages :
          log_processing_error(j, NULL, NULL, NULL, m, NULL)
    \/ \E j \in JobIds : clear_processing_errors(j)

Spec == Init /\ [][Next]_vars

\* The Report Store alone, with every subset of omitted fields
NextReport ==
    \/ \E f \in {"f1"} : enqueue_pending_folder(f, "n1", "e1")
    \/ \E p \in Patches : save_report_entry(1, "f1", p)

SpecReport == Init /\ [][NextReport]_vars

\* The Job Queue Store alone, with every status, reason and label
NextQueue ==
    \/ \E f \in FolderIds, l \in Labels : enqueue_pending_folder(f, l[1], l[2])
    \/ \E f \in FolderIds, s \in Statuses, e \in Reasons : update_pending_status(f, s, e)
    \/ Tick
    \/ get_job_stats

SpecQueue == Init /\ [][NextQueue]_vars

\* The Extraction Store alone
ExtractionKeys == {<<"f1", "d1">>, <<"f1", "d2">>, <<"f2", "d1">>}

\* (pending_folder_id, file_id, file_name) of a save
ExtractionSources == {<<NULL, NULL, NULL>>, <<Val(1), Val("file1"), Val("a.pdf")>>}

NextExtract ==
    \E k \in ExtractionKeys, src \in ExtractionSources, data \in Payloads :
        save_document_extraction(src[1], k[1], k[2], src[2], src[3], data)

SpecExtract == Init /\ [][NextExtract]_vars

\* Every public write operation, and job rows deleted by hand
NextAdmin ==
    \/ Next
    \/ \E id \in 1..MaxJobId : DeleteJobRow(id)

SpecAdmin == Init /\ [][NextAdmin]_vars

\* Two callers, each running enqueue or save_report, statement by statement
NextConc ==
    \/ \E p \in Procs, l \in Labels : StartEnqueue(p, "f1", l[1], l[2])
    \/ \E p \in Procs, patch \in ConcPatches : StartSaveReport(p, 1, "f1", patch)
    \/ \E p \in Procs : SelectExisting(p)
    \/ \E p \in Procs : ExecuteInsert(p)
    \/ \E p \in Procs : DatabaseIsLocked(p)
    \/ \E p \in Procs : Commit(p)
    \/ Return

SpecConc == Init /\ [][NextConc]_vars

----------------------------------------------------------------------------
(* Properties *)

\* the pending_folders rows of a folder_id
JobsOf(tbl, folder_id) == {r \in tbl : r.folder_id = folder_id}

\* C1: after any sequence of enqueue, update_status, save_extraction, save_report,
\* log_error and clear_errors calls, pending_folders holds at most one row per
\* folder_id; an enqueue of a folder_id that has a row adds no row.
C1_OneRowPerFolderId ==
    [][/\ \A f \in FolderIds : Cardinality(JobsOf(pending_folders', f)) <= 1
       /\ \A f \in FolderIds :
             (call'.op = "enqueue" /\ call'.args.folder_id = f /\ JobsOf(pending_folders, f) # {})
                => Cardinality(pending_folders') = Cardinality(pending_folders)]_vars

\* C1's case: a folder_id is enqueued again while another job exists beside it
C1_Witness ==
    /\ call.op = "enqueue"
    /\ call.outcome = "updated"
    /\ Cardinality(pending_folders) = 2
    /\ \E r \in pending_folders : r.status = "queued" /\ r.folder_id = "f1"
    /\ reports # {}
    /\ processing_errors # {}
    /\ document_extractions # {}

\* C2: enqueue(folder_id, name, emoji) of a folder_id that has a job row, in whatever
\* state, leaves that job queued, with error_reason and processed_at null and with
\* the supplied name and emoji.
C2_EnqueueResets ==
    [][\A f \in FolderIds :
          (call'.op = "enqueue" /\ call'.args.folder_id = f /\ JobsOf(pending_folders, f) # {})
             => /\ JobsOf(pending_folders', f) # {}
                /\ \A r \in JobsOf(pending_folders', f) :
                      /\ r.status = "queued"
                      /\ r.error_reason = NULL
                      /\ r.processed_at = NULL
                      /\ r.name = call'.args.name
                      /\ r.emoji = call'.args.emoji]_vars

\* C2's case: a job that was created earlier, under another name, has just been
\* enqueued again
C2_Witness ==
    /\ call.op = "enqueue"
    /\ call.outcome = "updated"
    /\ \E r \in JobsOf(pending_folders, call.args.folder_id) :
          /\ r.created_at < now
          /\ r.updated_at = now
          /\ r.name = "n2"
          /\ r.status = "queued"

\* C3: update_status of an existing job computes processed_at from the new status
\* alone: done makes it non-null, queued and processing make it null, any other
\* status (error included) leaves it as it was before the call.
C3_ProcessedAtFromStatus ==
    [][call'.op = "update_status" =>
          \A r \in JobsOf(pending_folders, call'.args.folder_id) :
             \E q \in JobsOf(pending_folders', call'.args.folder_id) :
                /\ q.id = r.id
                /\ call'.args.status = "done" => q.processed_at # NULL
                /\ call'.args.status \in {"queued", "processing"} => q.processed_at = NULL
                /\ call'.args.status \notin {"done", "queued", "processing"}
                      => q.processed_at = r.processed_at]_vars

\* C3's case: update_status(error) on a job that was done before keeps its processed_at
C3_Witness ==
    /\ call.op = "update_status"
    /\ call.outcome = "updated"
    /\ call.args.status = "error"
    /\ \E r \in JobsOf(pending_folders, call.args.folder_id) :
          r.status = "error" /\ r.processed_at # NULL

\* the seven report fields of the reports row of a job, or NULL when it has none
StoredReport(tbl, pending_folder_id) == ExistingReport(tbl, pending_folder_id)

\* C4: every field save_report's caller omits keeps its stored value when the job
\* has a report row, and is stored as null when it has none, whichever fields are
\* omitted and whatever calls came before.
C4_OmittedFieldsKept ==
    [][call'.op = "save_report" =>
          LET before == StoredReport(reports, call'.args.pending_folder_id)
              after == StoredReport(reports', call'.args.pending_folder_id)
          IN  /\ after # NULL
              /\ \A f \in ReportFields :
                    call'.args.patch[f] = UNSET
                       => after[1][f] = IF before # NULL THEN before[1][f] ELSE NULL]_vars

\* C4's case: a call that supplies evaluation_value only, on a report that has a
\* plus_value and details
C4_Witness ==
    /\ call.op = "save_report"
    /\ call.outcome = "updated"
    /\ call.args.patch = PatchOf(ReportFields \ {"evaluation_value"}, "value")
    /\ \E r \in reports :
          /\ r.pending_folder_id = call.args.pending_folder_id
          /\ r.plus_value = Val(<<"num", "100">>)
          /\ r.plus_value_details # NULL
          /\ r.evaluation_value = Val(<<"num", "50">>)

\* C5: a field supplied as explicit null is stored as null whatever it held, while
\* every field omitted in the same call keeps its stored value.
C5_ExplicitNullClears ==
    [][call'.op = "save_report" =>
          LET before == StoredReport(reports, call'.args.pending_folder_id)
              after == StoredReport(reports', call'.args.pending_folder_id)
              patch == call'.args.patch
          IN  /\ after # NULL
              /\ \A f \in ReportFields : patch[f] = NULL => after[1][f] = NULL
              /\ (before # NULL /\ \E f \in ReportFields : patch[f] = NULL)
                    => \A g \in ReportFields :
                          patch[g] = UNSET => after[1][g] = before[1][g]]_vars

\* C5's case: plus_value is cleared and the evaluation_value stored before is intact
C5_Witness ==
    /\ call.op = "save_report"
    /\ call.outcome = "updated"
    /\ call.args.patch = PatchOf(ReportFields \ {"plus_value"}, "null")
    /\ \E r \in reports :
          /\ r.pending_folder_id = call.args.pending_folder_id
          /\ r.plus_value = NULL
          /\ r.evaluation_value = Val(<<"num", "50">>)

\* the document_extractions rows of a (folder_id, doc_type) pair
DocsOf(tbl, folder_id, doc_type) ==
    {r \in tbl : r.folder_id = folder_id /\ r.doc_type = doc_type}

\* C6: after any sequence of save_extraction calls document_extractions holds at most
\* one row per (folder_id, doc_type); a save stores its data in the row of its pair
\* and leaves the data of every other pair, so each row holds the data of the most
\* recent save of its pair.
C6_OneRowLatestData ==
    [][call'.op = "save_extraction" =>
          /\ \A k \in ExtractionKeys :
                Cardinality(DocsOf(document_extractions', k[1], k[2])) <= 1
          /\ \E r \in DocsOf(document_extractions', call'.args.folder_id,
                             call'.args.doc_type) :
                r.data_json = json_dumps(call'.args.data)
          /\ \A k \in ExtractionKeys :
                k # <<call'.args.folder_id, call'.args.doc_type>>
                   => \A r \in DocsOf(document_extractions, k[1], k[2]) :
                         \E q \in DocsOf(document_extractions', k[1], k[2]) :
                            q.data_json = r.data_json]_vars

\* C6's case: a pair is saved again with other data while the other pairs have rows
C6_Witness ==
    /\ call.op = "save_extraction"
    /\ call.outcome = "updated"
    /\ Cardinality(document_extractions) = 3
    /\ \E r \in document_extractions, q \in document_extractions :
          /\ r.folder_id = call.args.folder_id /\ r.doc_type = call.args.doc_type
          /\ r.id = 1
          /\ q.id # 1
          /\ q.data_json # r.data_json

\* C7: deleting a job row removes the processing_errors rows and the reports row
\* that reference it, keeps the document_extractions rows that reference it with
\* pending_folder_id set to null, and leaves no reports or processing_errors row
\* referencing the deleted job.
C7_DeleteCascades ==
    [][call'.op = "delete_job" =>
          /\ \A r \in reports' : r.pending_folder_id # call'.args.id
          /\ \A e \in processing_errors' : e.pending_folder_id # call'.args.id
          /\ \A d \in document_extractions :
                \E q \in document_extractions' :
                   /\ q.id = d.id
                   /\ q.data_json = d.data_json
                   /\ d.pending_folder_id = Val(call'.args.id)
                         => q.pending_folder_id = NULL]_vars

\* C8: save_report or log_error naming a pending_folder_id that matches no job row
\* is rejected with an error and stores no row.
C8_DanglingWriteRejected ==
    [][(/\ call'.op \in {"save_report", "log_error"}
        /\ \A j \in pending_folders : j.id # call'.args.pending_folder_id)
          => /\ call'.outcome = "IntegrityError"
             /\ reports' = reports
             /\ processing_errors' = processing_errors]_vars

\* the seven fields of a report after a patch is applied to it
Patched(patch, existing) == Val(ResolvedReport(patch, existing))

SameFields(a, b) ==
    /\ a # NULL
    /\ b # NULL
    /\ \A f \in ReportFields : a[1][f] = b[1][f]

\* C9: two save_report calls running concurrently on one pending_folder_id leave the
\* report that applying the two patches one after the other, in some order, leaves.
C9_PatchesSerialize ==
    (/\ \A p \in Procs : pc[p] = "done" /\ local[p].op = "save_report" /\ local[p].overlap
     /\ local[1].args.pending_folder_id = local[2].args.pending_folder_id)
       => LET base == StoredReport(snap[3], local[1].args.pending_folder_id)
              final == StoredReport(reports, local[1].args.pending_folder_id)
              p1 == local[1].args.patch
              p2 == local[2].args.patch
          IN  \/ SameFields(final, Patched(p2, Patched(p1, base)))
              \/ SameFields(final, Patched(p1, Patched(p2, base)))

\* C10: two enqueue calls for one folder_id running concurrently, in any
\* interleaving, leave exactly one pending_folders row for it, with status queued.
C10_ConcurrentEnqueueOneRow ==
    (/\ \A p \in Procs : /\ pc[p] \in {"done", "failed"}
                         /\ local[p].op = "enqueue"
                         /\ local[p].overlap
     /\ local[1].args.folder_id = local[2].args.folder_id)
       => /\ Cardinality(JobsOf(pending_folders, local[1].args.folder_id)) = 1
          /\ \A r \in JobsOf(pending_folders, local[1].args.folder_id) :
                r.status = "queued"

\* C10's case: both callers were inside enqueue at once, for a folder_id with no row
\* yet, under different names, and both committed
C10_Witness ==
    /\ \A p \in Procs : pc[p] = "done" /\ local[p].op = "enqueue" /\ local[p].overlap
    /\ local[1].args.name # local[2].args.name
    /\ JobsOf(snap[1], "f1") = {}
    /\ JobsOf(pending_folders, "f1") # {}

\* C11: no update_status call on a job whose status is done or error results in
\* status queued; such a job returns to queued only through enqueue.
C11_QueuedOnlyThroughEnqueue ==
    [][call'.op = "update_status" =>
          \A r \in JobsOf(pending_folders, call'.args.folder_id) :
             r.status \in {"done", "error"} =>
                \A q \in JobsOf(pending_folders', call'.args.folder_id) :
                   q.status # "queued"]_vars

\* the four statuses the code names
StatusBuckets == {"queued", "processing", "done", "error"}

\* C12: in every reachable state, the status of every job row is one of queued,
\* processing, done, error.
C12_StatusInEnum ==
    \A r \in pending_folders : r.status \in StatusBuckets

\* values a caller supplies for a structured report field: a dict, a dict with an
\* int key, a list, and texts: plain, of digits, empty
StructuredValues == {PyDict(PyStr("base"), PyStr("é")), PyDict(PyInt("1"), PyStr("a")),
                     PyList(PyStr("x")), PyStr("synthèse"), PyStr("42"), PyStr("")}

StructuredFields == DetailFields \cup {"final_synthesis"}

\* the calls that supply one structured field and omit the rest
StructuredPatches ==
    {[f \in ReportFields |-> IF f = g THEN Val(V) ELSE UNSET] :
        g \in StructuredFields, V \in StructuredValues}

\* The Report Store written with structured values and read through each view
NextRoundTrip ==
    \/ enqueue_pending_folder("f1", "n1", "e1")
    \/ \E p \in StructuredPatches : save_report_entry(1, "f1", p)
    \/ get_report(1)
    \/ get_job_with_details("f1")
    \/ list_jobs_with_extractions

SpecRoundTrip == Init /\ [][NextRoundTrip]_vars

\* The stores with every lookup
NextViews ==
    \/ \E f \in FolderIds : enqueue_pending_folder(f, "n1", "e1")
    \/ \E p \in FewPatches : save_report_entry(1, "f1", p)
    \/ \E j \in {NULL, Val(1)}, data \in Payloads :
          save_document_extraction(j, "f1", "d1", NULL, NULL, data)
    \/ \E j \in JobIds : get_report(j)
    \/ \E f \in FolderIds, d \in {"d1", "d2"} : get_document_extraction(f, d)
    \/ \E f \in FolderIds : get_job_with_details(f)
    \/ list_jobs_with_extractions

SpecViews == Init /\ [][NextViews]_vars

\* C13: after save_report supplies a value V for plus_value_details,
\* evaluation_details or final_synthesis, get_report, job_with_details and
\* jobs_with_extractions each return a report in which that field equals V.
C13_StructuredRoundTrip ==
    \A f \in StructuredFields :
       (/\ call.op = "save_report"
        /\ call.args.patch[f] \notin {UNSET, NULL}
        /\ \E j \in pending_folders : j.id = call.args.pending_folder_id)
          => LET V == call.args.patch[f]
                 job == CHOOSE j \in pending_folders : j.id = call.args.pending_folder_id
                 row == GetReport(reports, job.id)
                 details == JobWithDetails(job.folder_id)
             IN  /\ row # NULL
                 /\ row[1][f] = V
                 /\ details[1].report # NULL
                 /\ details[1].report[1][f] = V
                 /\ \A e \in JobsWithExtractions :
                       e.job.id = job.id => e.report # NULL /\ e.report[1][f] = V

\* the payload a record returned by get_extraction carries: its key "data" if it
\* has one, else its column data_json
RecordData(rec) ==
    IF "data" \in DOMAIN rec THEN rec.data ELSE Val(rec.data_json)

\* C14: after save_extraction(folder_id, doc_type, data = D),
\* get_extraction(folder_id, doc_type) returns a record whose data equals D.
C14_ExtractionRoundTrip ==
    call.op = "save_extraction" =>
       LET rec == GetDocumentExtraction(document_extractions,
                                        call.args.folder_id, call.args.doc_type)
       IN  /\ rec # NULL
           /\ RecordData(rec[1]) = Val(call.args.data)

\* the job rows with exactly this status
WithStatus(tbl, status) == {r \in tbl : r.status = status}

\* C15: job_stats reports total equal to the number of job rows and, for each of
\* queued, processing, done and error, the number of job rows with exactly that
\* status; the four add up to at most total, and to total exactly when every job
\* has one of the four statuses.
C15_JobStatsCounts ==
    call.op = "job_stats" =>
       LET s == call.result
           sum == s.queued + s.processing + s.done + s.error
       IN  /\ s.total = Cardinality(pending_folders)
           /\ s.queued = Cardinality(WithStatus(pending_folders, "queued"))
           /\ s.processing = Cardinality(WithStatus(pending_folders, "processing"))
           /\ s.done = Cardinality(WithStatus(pending_folders, "done"))
           /\ s.error = Cardinality(WithStatus(pending_folders, "error"))
           /\ sum <= s.total
           /\ sum = s.total <=> \A r \in pending_folders : r.status \in StatusBuckets

\* C15's case: job_stats has just counted two jobs, one of them with a status that
\* is none of the four
C15_Witness ==
    /\ call.op = "job_stats"
    /\ call.result.total = 2
    /\ call.result.done = 1
    /\ \E r \in pending_folders : r.status = "archived"

\* C16: job_with_details for a folder_id with no job row, get_extraction for a
\* (folder_id, doc_type) with no row and get_report for a pending_folder_id with no
\* report return an absent result and raise no error, and none changes the store.
C16_AbsentLookups ==
    [][(\/ /\ call'.op = "job_with_details"
           /\ JobsOf(pending_folders, call'.args.folder_id) = {}
        \/ /\ call'.op = "get_extraction"
           /\ DocsOf(document_extractions, call'.args.folder_id, call'.args.doc_type) = {}
        \/ /\ call'.op = "get_report"
           /\ \A r \in reports : r.pending_folder_id # call'.args.pending_folder_id)
          => /\ call'.outcome = "ok"
             /\ call'.result = NULL
             /\ tables' = tables]_vars

\* C16's case: get_report has just been asked for a job that has no report while
\* another job has one, and there are job rows and extractions
C16_Witness ==
    /\ call.op = "get_report"
    /\ call.result = NULL
    /\ reports # {}
    /\ pending_folders # {}
    /\ document_extractions # {}

\* C17: update_status for a folder_id that has no job row raises no error, creates
\* no row and leaves every existing job row unchanged.
C17_UpdateUnknownIsNoOp ==
    [][(/\ call'.op = "update_status"
        /\ JobsOf(pending_folders, call'.args.folder_id) = {})
          => /\ call'.outcome = "no_row"
             /\ pending_folders' = pending_folders
             /\ tables' = tables]_vars

\* C17's case: update_status has just named a folder_id with no row while the job
\* of another folder_id, left done earlier, is in the table
C17_Witness ==
    /\ call.op = "update_status"
    /\ call.outcome = "no_row"
    /\ call.args.status = "error"
    /\ \E r \in pending_folders : r.status = "done" /\ r.updated_at < now

\* The Report Store with a report for each of two jobs
NextReportKeys ==
    \/ \E j \in JobIds, p \in FewPatches :
          save_report_entry(j, IF j = 1 THEN "f1" ELSE "f2", p)
    \/ \E j \in JobIds : get_report(j)
    \/ Tick

SpecReportKeys == Init /\ [][NextReportKeys]_vars

\* the reports rows of a pending_folder_id
ReportsOf(tbl, pending_folder_id) ==
    {r \in tbl : r.pending_folder_id = pending_folder_id}

\* C18: after any sequence of save_report calls the reports table holds at most one
\* row per pending_folder_id; the first save_report for a job creates the row and
\* every later one updates that same row.
C18_OneReportPerJob ==
    [][/\ \A j \in JobIds : Cardinality(ReportsOf(reports', j)) <= 1
       /\ call'.op = "save_report" =>
             LET j == call'.args.pending_folder_id
             IN  /\ Cardinality(ReportsOf(reports', j)) = 1
                 /\ \A o \in JobIds \ {j} : ReportsOf(reports', o) = ReportsOf(reports, o)
                 /\ \A r \in ReportsOf(reports, j) :
                       \E q \in ReportsOf(reports', j) :
                          q.id = r.id /\ q.created_at = r.created_at]_vars

\* C18's case: a later save_report has just updated the report of one job, created
\* earlier, while another job has a report too
C18_Witness ==
    /\ call.op = "save_report"
    /\ call.outcome = "updated"
    /\ Cardinality(reports) = 2
    /\ \E r \in ReportsOf(reports, call.args.pending_folder_id) :
          r.created_at < r.updated_at

\* The Error Log alone, with time passing
NextErrors ==
    \/ \E j \in JobIds, m \in Messages :
          log_processing_error(j, NULL, NULL, NULL, m, NULL)
    \/ \E j \in JobIds : clear_processing_errors(j)
    \/ \E j \in JobIds : list_processing_errors(j)
    \/ Tick

SpecErrors == Init /\ [][NextErrors]_vars

\* C19 (a step that leaves now as it was is a call, not the passing of time):
\* log_error with a message appends exactly one new processing_errors row and
\* changes or removes no existing one: the errors listed for the job after the call
\* are the errors listed before it followed by the new one, and the errors listed
\* for every other job are unchanged.
C19_LogAppendsOne ==
    [][(call'.op = "log_error" /\ call'.args.message # NULL /\ now' = now) =>
          LET j == call'.args.pending_folder_id
              before == ListProcessingErrors(processing_errors, j)
              after == ListProcessingErrors(processing_errors', j)
          IN  /\ call'.outcome = "inserted"
              /\ processing_errors \subseteq processing_errors'
              /\ Cardinality(processing_errors') = Cardinality(processing_errors) + 1
              /\ Len(after) = Len(before) + 1
              /\ SubSeq(after, 1, Len(before)) = before
              /\ after[Len(after)] \notin processing_errors
              /\ after[Len(after)].message = call'.args.message
              /\ \A o \in JobIds \ {j} :
                    ListProcessingErrors(processing_errors', o)
                       = ListProcessingErrors(processing_errors, o)]_vars

\* C19's case: a second error has just been logged for a job, later than its first
C19_Witness ==
    /\ call.op = "log_error"
    /\ call.outcome = "inserted"
    /\ LET l == ListProcessingErrors(processing_errors, call.args.pending_folder_id)
       IN  /\ Len(l) = 2
           /\ l[1].created_at < l[2].created_at

\* C20: clear_errors(pending_folder_id) removes every processing_errors row of that
\* job and nothing else: the job rows, the reports, the extractions and the errors
\* of every other job are unchanged.
C20_ClearRemovesOnlyJobErrors ==
    [][call'.op = "clear_errors" =>
          LET j == call'.args.pending_folder_id
          IN  /\ \A e \in processing_errors' : e.pending_folder_id # j
              /\ \A e \in processing_errors :
                    e.pending_folder_id # j => e \in processing_errors'
              /\ processing_errors' \subseteq processing_errors
              /\ pending_folders' = pending_folders
              /\ reports' = reports
              /\ document_extractions' = document_extractions]_vars

\* C20's case: the errors of a job in status error have just been cleared; the job
\* keeps its status and reason, has a report and an extraction, and an error of
\* another job is still there
C20_Witness ==
    /\ call.op = "clear_errors"
    /\ sqlite_sequence.processing_errors = 2
    /\ Cardinality(processing_errors) = 1
    /\ \A e \in processing_errors : e.pending_folder_id # call.args.pending_folder_id
    /\ \E r \in pending_folders :
          /\ r.id = call.args.pending_folder_id
          /\ r.status = "error"
          /\ r.error_reason # NULL
    /\ \E r \in reports : r.pending_folder_id = call.args.pending_folder_id
    /\ \E d \in document_extractions : d.pending_folder_id = Val(call.args.pending_folder_id)

\* C21 (a step that leaves now as it was is a call, not the passing of time):
\* list_errors(pending_folder_id) returns exactly the errors logged for that job
\* since its last clear_errors, in the order in which they were logged, which is the
\* order of (created_at, id), also when several errors share one created_at.  The
\* list of a job is empty after its clear_errors, grows at its end by each error
\* logged for it, and is changed by no other call; ids are handed out in the order
\* of logging.
C21_ListedInLoggingOrder ==
    [][/\ \A j \in JobIds :
             LET before == ListProcessingErrors(processing_errors, j)
                 after == ListProcessingErrors(processing_errors', j)
                 mine == now' = now /\ call'.args.pending_folder_id = j
             IN  IF mine /\ call'.op = "clear_errors" THEN after = <<>>
                 ELSE IF mine /\ call'.op = "log_error" /\ call'.outcome = "inserted"
                 THEN /\ Len(after) = Len(before) + 1
                      /\ SubSeq(after, 1, Len(before)) = before
                      /\ after[Len(after)].id = sqlite_sequence'.processing_errors
                      /\ sqlite_sequence'.processing_errors
                            > sqlite_sequence.processing_errors
                 ELSE after = before
       /\ (call'.op = "list_errors" /\ now' = now) =>
             LET l == call'.result
             IN  /\ l = ListProcessingErrors(processing_errors,
                                             call'.args.pending_folder_id)
                 /\ \A i \in 1..Len(l) : \A k \in 1..Len(l) :
                       i < k => /\ l[i].id < l[k].id
                                /\ l[i].created_at <= l[k].created_at
                 /\ {l[i] : i \in 1..Len(l)}
                       = {r \in processing_errors :
                             r.pending_folder_id = call'.args.pending_folder_id}]_vars

\* C21's case: list_errors has just returned two errors of one job that share a
\* created_at, later than the start
C21_Witness ==
    /\ call.op = "list_errors"
    /\ Len(call.result) = 2
    /\ call.result[1].created_at = call.result[2].created_at
    /\ call.result[1].created_at > 0

\* the status arguments of list_jobs: omitted, the empty text, and statuses
ListStatuses == {NULL, Val(""), Val("queued"), Val("done")}

\* The Job Queue Store and its list, with time passing
NextList ==
    \/ \E f \in FolderIds : enqueue_pending_folder(f, "n1", "e1")
    \/ \E f \in FolderIds : update_pending_status(f, "done", NULL)
    \/ \E s \in ListStatuses : get_pending_folders(s)
    \/ Tick

SpecList == Init /\ [][NextList]_vars

\* C22: list_jobs(status) returns exactly the jobs whose status equals the given
\* status, for every status value supplied, and all jobs when the status is
\* omitted, ordered by created_at ascending.
C22_ListJobsFiltered ==
    call.op = "list_jobs" =>
       LET l == call.result
       IN  /\ {l[i] : i \in DOMAIN l} =
                 IF call.args.status = NULL THEN pending_folders
                 ELSE {r \in pending_folders : r.status = call.args.status[1]}
           /\ Len(l) = Cardinality({l[i] : i \in DOMAIN l})
           /\ \A i \in DOMAIN l : \A k \in DOMAIN l :
                 i < k => l[i].created_at <= l[k].created_at

\* a call that supplies a value and a final_synthesis the storage cannot bind
UnboundPatch ==
    [f \in ReportFields |->
        IF f = "plus_value" THEN Val(SampleValue(f))
        ELSE IF f = "final_synthesis" THEN Val(PyDict(PyStr("base"), PyStr("é")))
        ELSE UNSET]

\* The writes of one job, failing ones among them
NextFailures ==
    \/ enqueue_pending_folder("f1", "n1", "e1")
    \/ \E p \in FewPatches \cup {UnboundPatch} : save_report_entry(1, "f1", p)
    \/ \E m \in Messages : log_processing_error(1, NULL, NULL, NULL, m, NULL)
    \/ clear_processing_errors(1)
    \/ \E data \in FewPayloads :
          save_document_extraction(Val(1), "f1", "d1", NULL, NULL, data)

SpecFailures == Init /\ [][NextFailures]_vars

BackReferences == {NULL, Val(0), Val(1), Val(2), Val(3)}

\* Jobs and extractions with every pairing of back-reference and folder_id, and
\* the two views of them
NextAttach ==
    \/ \E f \in FolderIds : enqueue_pending_folder(f, "n1", "e1")
    \/ \E j \in BackReferences, f \in FolderIds :
          save_document_extraction(j, f, "d1", NULL, NULL, PyList(PyStr("x")))
    \/ list_jobs_with_extractions
    \/ \E f \in FolderIds : get_job_with_details(f)

SpecAttach == Init /\ [][NextAttach]_vars

\* C24: in jobs_with_extractions every extraction is listed under the job named by
\* its pending_folder_id when it has one, and otherwise under the job whose
\* folder_id equals its own; so under at most one job, and under none when that
\* job is not listed.
C24_AttachedByBackReference ==
    call.op = "jobs_with_extractions" =>
       \A e \in call.result : \A d \in document_extractions :
          doc_dict(d) \in e.documents
             <=> IF d.pending_folder_id # NULL
                 THEN d.pending_folder_id = Val(e.job.id)
                 ELSE d.folder_id = e.job.folder_id

\* The Extraction Store saved and saved again, with time passing
NextResave ==
    \/ \E d \in {"d1", "d2"}, src \in ExtractionSources :
          save_document_extraction(src[1], "f1", d, src[2], src[3], PyList(PyStr("x")))
    \/ \E d \in {"d1", "d2"} : get_document_extraction("f1", d)
    \/ Tick

SpecResave == Init /\ [][NextResave]_vars

\* C25 (a step that leaves now as it was is a call, not the passing of time):
\* save_extraction on an existing (folder_id, doc_type) leaves one row for it, with
\* the pending_folder_id, file_id and file_name of this call, absent ones included,
\* and with the id and created_at the row had.
C25_ResaveOverwrites ==
    [][(call'.op = "save_extraction" /\ now' = now) =>
          \A r \in DocsOf(document_extractions, call'.args.folder_id, call'.args.doc_type) :
             /\ Cardinality(DocsOf(document_extractions', call'.args.folder_id,
                                   call'.args.doc_type)) = 1
             /\ \A q \in DocsOf(document_extractions', call'.args.folder_id,
                                call'.args.doc_type) :
                   /\ q.id = r.id
                   /\ q.created_at = r.created_at
                   /\ q.pending_folder_id = call'.args.pending_folder_id
                   /\ q.file_id = call'.args.file_id
                   /\ q.file_name = call'.args.file_name]_vars

\* C25's case: a record created earlier has just been saved again with no
\* back-reference and no file, beside a record that has them
C25_Witness ==
    /\ call.op = "save_extraction"
    /\ call.outcome = "updated"
    /\ call.args.pending_folder_id = NULL
    /\ \E r \in DocsOf(document_extractions, call.args.folder_id, call.args.doc_type) :
          /\ r.created_at < r.updated_at
          /\ r.pending_folder_id = NULL
          /\ r.file_id = NULL
    /\ \E o \in document_extractions : o.pending_folder_id # NULL

\* C26: update_status on an existing job sets error_reason to the supplied reason,
\* or to null when none is supplied, whatever the previous error_reason and
\* whatever the new status.
C26_ReasonAlwaysSet ==
    [][(call'.op = "update_status" /\ now' = now) =>
          \A r \in JobsOf(pending_folders, call'.args.folder_id) :
             \E q \in JobsOf(pending_folders', call'.args.folder_id) :
                /\ q.id = r.id
                /\ q.status = call'.args.status
                /\ q.error_reason = call'.args.error_reason]_vars

\* C26's case: update_status(done) with no reason has just run on a job that was
\* updated earlier, and the job has no reason
C26_Witness ==
    /\ call.op = "update_status"
    /\ call.outcome = "updated"
    /\ call.args.status = "done"
    /\ call.args.error_reason = NULL
    /\ \E r \in JobsOf(pending_folders, call.args.folder_id) :
          /\ r.error_reason = NULL
          /\ r.created_at < r.updated_at
    /\ \E o \in pending_folders : o.error_reason # NULL /\ o.status = "error"

\* C27: in every state reachable through enqueue and update_status a job with
\* status queued or processing has processed_at null and a job with status done has
\* processed_at non-null; a processed_at that was null, or the processed_at of a
\* new row, is non-null only after an update_status of that job to done.
C27_ProcessedAtFollowsStatus ==
    [][\A q \in pending_folders' :
          /\ q.status \in {"queued", "processing"} => q.processed_at = NULL
          /\ q.status = "done" => q.processed_at # NULL
          /\ (/\ q.processed_at # NULL
              /\ \A r \in pending_folders : r.id = q.id => r.processed_at = NULL)
                => /\ call'.op = "update_status"
                   /\ call'.args.status = "done"
                   /\ call'.args.folder_id = q.folder_id
                   /\ now' = now]_vars

\* C27's case: a job made done earlier has been put to error and keeps its
\* processed_at, beside a job that update_status has just made processing
C27_Witness ==
    /\ call.op = "update_status"
    /\ call.args.status = "processing"
    /\ \E r \in pending_folders : /\ r.status = "error"
                                  /\ r.processed_at # NULL
    /\ \E r \in JobsOf(pending_folders, call.args.folder_id) :
          /\ r.processed_at = NULL
          /\ r.created_at < r.updated_at

\* One job worked on once (a report, an error, an extraction), failed and enqueued
\* again, beside a second job, with time passing
NextRetry ==
    \/ enqueue_pending_folder("f1", "n1", "e1")
    \/ JobsOf(pending_folders, "f2") = {} /\ enqueue_pending_folder("f2", "n1", "e1")
    \/ update_pending_status("f1", "error", Val("r1"))
    \/ reports = {}
          /\ save_report_entry(1, "f1", PatchOf(ReportFields \ {"plus_value"}, "value"))
    \/ processing_errors = {}
          /\ log_processing_error(1, NULL, NULL, NULL, Val("m1"), NULL)
    \/ document_extractions = {}
          /\ save_document_extraction(Val(1), "f1", "d1", NULL, NULL, PyList(PyStr("x")))
    \/ get_job_with_details("f1")
    \/ get_pending_folders(NULL)
    \/ Tick

SpecRetry == Init /\ [][NextRetry]_vars

\* the orders, as sequences of ids, in which list_jobs() can return the jobs
ListOrders(tbl) ==
    {[i \in DOMAIN l |-> l[i].id] : l \in OrderedByCreatedAt(SelectPendingFolders(tbl, NULL))}

\* C28 (a step that leaves now as it was is a call, not the passing of time):
\* enqueue of a folder_id that has a job keeps the job's id and created_at and
\* leaves reports, processing errors and extractions unchanged; job_with_details
\* returns the same report, errors and documents after it as before, and
\* list_jobs can return the jobs in the same orders as before.
C28_ReEnqueueKeepsHistory ==
    [][\A f \in FolderIds :
          (/\ call'.op = "enqueue"
           /\ call'.args.folder_id = f
           /\ now' = now
           /\ JobsOf(pending_folders, f) # {})
             => /\ \A r \in JobsOf(pending_folders, f) :
                      \E q \in JobsOf(pending_folders', f) :
                         q.id = r.id /\ q.created_at = r.created_at
                /\ reports' = reports
                /\ processing_errors' = processing_errors
                /\ document_extractions' = document_extractions
                /\ JobWithDetails(f)' # NULL
                /\ JobWithDetails(f)'[1].report = JobWithDetails(f)[1].report
                /\ JobWithDetails(f)'[1].errors = JobWithDetails(f)[1].errors
                /\ JobWithDetails(f)'[1].documents = JobWithDetails(f)[1].documents
                /\ ListOrders(pending_folders') = ListOrders(pending_folders)]_vars

\* C28's case: a job that failed has just been enqueued again, later than it was
\* created and later than a second job was; it still has its report, its error and
\* its extraction
C28_Witness ==
    /\ call.op = "enqueue"
    /\ call.outcome = "updated"
    /\ \E r \in JobsOf(pending_folders, call.args.folder_id) :
          /\ r.created_at < r.updated_at
          /\ r.updated_at = now
          /\ \E o \in pending_folders : o.created_at > r.created_at
          /\ \E p \in reports : p.pending_folder_id = r.id
          /\ \E e \in processing_errors : e.pending_folder_id = r.id
          /\ \E d \in document_extractions : d.folder_id = r.folder_id

\* C29: in every reachable state and for every job, the extractions listed under the
\* job by jobs_with_extractions are the documents job_with_details returns for the
\* job's folder_id.
C29_ViewsAgreeOnDocuments ==
    \A e \in JobsWithExtractions :
       /\ JobWithDetails(e.job.folder_id) # NULL
       /\ e.documents = JobWithDetails(e.job.folder_id)[1].documents

\* Two callers, each running enqueue or job_stats, statement by statement
NextConcRead ==
    \/ \E p \in Procs, f \in FolderIds : StartEnqueue(p, f, "n1", "e1")
    \/ \E p \in Procs : StartJobStats(p)
    \/ \E p \in Procs : SelectTotal(p)
    \/ \E p \in Procs : SelectByStatus(p)
    \/ \E p \in Procs : SelectLastUpdate(p)
    \/ \E p \in Procs : ExecuteInsert(p)
    \/ \E p \in Procs : DatabaseIsLocked(p)
    \/ \E p \in Procs : Commit(p)
    \/ Return

SpecConcRead == Init /\ [][NextConcRead]_vars

\* C30: a read view is computed from a single store state even when writers run
\* concurrently: the total job_stats returns is never smaller than the sum of its
\* four status buckets.
C30_JobStatsFromOneState ==
    \A p \in Procs :
       (pc[p] = "done" /\ local[p].op = "job_stats")
          => local[p].result.total >=
                local[p].result.queued + local[p].result.processing
                   + local[p].result.done + local[p].result.error

====
